---- MODULE Spec2Model ----
(***************************************************************************)
(* BigAko: the session-authenticated message exchange of src/main.py.      *)
(* BigAkoServer keeps the accounts and the message log in sqlite           *)
(* (users.db), the recent-message mirror and the session map in memory,    *)
(* and the attachments in uploads/.  BigAkoHandler serves one request per  *)
(* worker; workers interleave at every access to shared state.             *)
(* run_server starts a plain socketserver.TCPServer, which handles one     *)
(* request at a time: its behaviours are the ones where a worker finishes  *)
(* before the next one starts.  The interleaved behaviours are those of    *)
(* concurrent handler threads, for which BigAkoServer.lock is there.       *)
(*                                                                         *)
(* Strings that the code concatenates or tests for emptiness are modelled  *)
(* as sequences of characters.  sha256 is modelled as an injective digest. *)
(* secrets.token_hex(32) and uuid.uuid4() are modelled as generators that  *)
(* never return the same value twice.  Timestamps are left out.            *)
(***************************************************************************)
EXTENDS Integers, Sequences, FiniteSets, TLC

VARIABLES
    users,            \* table users: username -> [password_hash, salt]
    registered,       \* history: username -> the password register_user stored it with
    messages,         \* table messages: a set of rows, each with its id
    inserted,         \* history: the rows of messages in the order of their INSERTs
    message_history,  \* BigAkoServer.message_history, the mirror
    session_tokens,   \* BigAkoServer.session_tokens: token -> username
    uploads,          \* directory uploads/: storage key -> size of the file
    lock,             \* BigAkoServer.lock: the worker holding it, or NoWorker
    next_token,       \* number of tokens secrets.token_hex(32) has returned
    next_file_id,     \* number of identifiers uuid.uuid4() has returned
    pc,               \* per worker: the handler step it is at
    req,              \* per worker: the request it is handling
    frame,            \* per worker: the handler's local variables
    resp              \* per worker: the response to that request

vars == <<users, registered, messages, inserted, message_history, session_tokens,
          uploads, lock, next_token, next_file_id, pc, req, frame, resp>>

(***************************************************************************)
(* Bounds of the model.                                                    *)
(***************************************************************************)
\* Messages in the log, and attachments stored.
MaxMessages == 2
MaxFiles == 1
\* Logins: in the message exchange, and in the specification of the accounts
\* and sessions.
MaxChatTokens == 1
MaxAuthTokens == 2
\* Attachments stored in the specification of the uploads and downloads.
MaxUploads == 2

Workers == {"w1", "w2"}
NoWorker == "nobody"

\* Values of the form fields and of the parts of a multipart body.
FormUsernames == {"", "a", "b"}
FormPasswords == {"", "p", "q"}
FormMessages == {"", "hi"}
PartFilenames == {"", "f_g"}
\* The one account of the message exchange.
ChatUsernames == {"a"}
ChatPasswords == {"p"}

\* secrets.token_hex(16): the salts the generator may return.
Salts == {"0", "1"}

\* SQL NULL / Python None, for a text column and for an integer column.
Null == "NULL"
NullSize == -1

\* Cookie header of a request: no session cookie (get_session_token returns
\* None), a value that no login has issued, or a token a login has returned.
NoToken == "None"
ForgedToken == "forged"

(***************************************************************************)
(* Program constants.                                                      *)
(***************************************************************************)
MaxFileSize == 52428800
MirrorLimit == 100
DefaultLimit == 50

PartFileSizes == {0, MaxFileSize, MaxFileSize + 1}

(***************************************************************************)
(* Helpers.                                                                *)
(***************************************************************************)
Max(S) == CHOOSE x \in S : \A y \in S : y <= x

\* A logout that ends every session of the token's user.
DictDelUser(f, k) == [x \in {y \in DOMAIN f : f[y] # f[k]} |-> f[x]]

\* del d[k]
DictDel(f, k) == [x \in DOMAIN f \ {k} |-> f[x]]

\* d.get(k)
DictGet(f, k) == IF k \in DOMAIN f THEN f[k] ELSE Null

\* A dictionary store that drops the other keys holding the same value.
DictSetSingle(f, k, v) ==
    [x \in {y \in DOMAIN f : f[y] # v} \cup {k} |-> IF x = k THEN v ELSE f[x]]

\* d[k] = v
DictSet(f, k, v) == [x \in DOMAIN f \cup {k} |-> IF x = k THEN v ELSE f[x]]

\* s[-n:]
LastN(s, n) == IF Len(s) <= n THEN s ELSE SubSeq(s, Len(s) - n + 1, Len(s))

\* s[::-1]
Reverse(s) == [i \in 1..Len(s) |-> s[Len(s) + 1 - i]]

(***************************************************************************)
(* Credential store.                                                       *)
(***************************************************************************)
\* hashlib.sha256(...).hexdigest(), as an injective digest of its input.
sha256(s) == "sha256:" \o s

\* A digest that leaves the password out.
hash_salt_only(password, salt) == sha256(salt)

hash_password(password, salt) == sha256(password \o salt)

\* An INSERT OR REPLACE: no UNIQUE constraint stops it.
register_user_replace(username) == TRUE

\* The INSERT of register_user: TRUE when the UNIQUE constraint admits it.
register_user_ok(username) == username \notin DOMAIN users

register_user_row(password, salt) ==
    [password_hash |-> hash_password(password, salt), salt |-> salt]

\* A verification that only looks the username up.
verify_user_exists(username, password) == username \in DOMAIN users

verify_user(username, password) ==
    IF username \in DOMAIN users
    THEN hash_password(password, users[username].salt) = users[username].password_hash
    ELSE FALSE

(***************************************************************************)
(* Message store.                                                          *)
(***************************************************************************)
\* An id taken from the length of the mirror instead of from the table.
stale_id == Len(message_history) + 1

\* INTEGER PRIMARY KEY AUTOINCREMENT: one more than the largest id so far.
next_id == IF messages = {} THEN 1 ELSE Max({m.id : m \in messages}) + 1

message_row(username, message, message_type, file_name, file_size) ==
    [username |-> username, message |-> message, message_type |-> message_type,
     file_name |-> file_name, file_size |-> file_size]

\* A row of table messages without its id: what SELECT returns and what the
\* mirror holds.
row_of(m) == message_row(m.username, m.message, m.message_type, m.file_name, m.file_size)

\* A mirror update whose truncation keeps the new entry only.
mirror_append_truncated(history, row) == LastN(Append(history, row), 1)

\* The mirror update of add_message, done while holding the lock.
mirror_append(history, row) == LastN(Append(history, row), MirrorLimit)

\* SELECT ... ORDER BY id DESC LIMIT ?: the stored rows, largest id first.
RECURSIVE order_by_id_desc(_)
order_by_id_desc(rows) ==
    IF rows = {} THEN << >>
    ELSE LET top == CHOOSE m \in rows : \A o \in rows : o.id <= m.id
         IN  <<top>> \o order_by_id_desc(rows \ {top})

\* A SELECT without its LIMIT.
select_recent_unlimited(limit) == order_by_id_desc(messages)

select_recent(limit) ==
    LET all == order_by_id_desc(messages)
    IN  IF Len(all) <= limit THEN all ELSE SubSeq(all, 1, limit)

\* The rows as fetched, newest first: the reversal left out.
get_recent_messages_unreversed(limit) ==
    LET fetched == select_recent(limit)
    IN  [i \in 1..Len(fetched) |-> row_of(fetched[i])]

get_recent_messages(limit) ==
    LET fetched == select_recent(limit)
    IN  Reverse([i \in 1..Len(fetched) |-> row_of(fetched[i])])

(***************************************************************************)
(* Session guard.                                                          *)
(***************************************************************************)
verify_session(token) == token \in DOMAIN session_tokens

get_username_from_session(token) == DictGet(session_tokens, token)

\* secrets.token_hex(32): a value no earlier call has returned.
new_token == ToString(next_token + 1)

\* str(uuid.uuid4()): a value no earlier call has returned.
new_file_id == "u" \o ToString(next_file_id + 1)

\* f"{file_id}_{filename}"
storage_key(file_id, filename) == file_id \o "_" \o filename

(***************************************************************************)
(* Requests and responses.                                                 *)
(***************************************************************************)
Request(kind, username, password, cookie, message, filename, file_size) ==
    [kind |-> kind, username |-> username, password |-> password,
     cookie |-> cookie, message |-> message, filename |-> filename,
     file_size |-> file_size]

NoRequest == Request("none", "", "", NoToken, "", "", 0)

\* The tokens a client can send: those a login has handed out, and guesses.
Cookies == {NoToken, ForgedToken} \cup {ToString(n) : n \in 1..next_token}

Response(status, body, set_cookie, data) ==
    [status |-> status, body |-> body, set_cookie |-> set_cookie, data |-> data]

\* The request is being handled: nothing has been sent yet.
Pending == Response(0, "pending", Null, << >>)
\* The handler returned without sending anything.
NoResponse == Response(0, "nothing sent", Null, << >>)
\* serve_json({'success': True})
Success == Response(200, "success", Null, << >>)
\* serve_json({'success': False, 'error': error})
Failure(error) == Response(200, error, Null, << >>)
\* send_error(code)
send_error(code) == Response(code, "error", Null, << >>)


\* The local variables of a handler: the username it looked up and the
\* attachment it stored.
Frame(username, file_name, file_size) ==
    [username |-> username, file_name |-> file_name, file_size |-> file_size]

NoFrame == Frame(Null, Null, NullSize)

\* The requests in flight that will add a message, log in or store a file.
Posting == {v \in Workers : pc[v] # "idle" /\ req[v].kind \in {"message", "multipart"}}
LoggingIn == {v \in Workers : pc[v] # "idle" /\ req[v].kind = "login"}
Storing == {v \in Workers : pc[v] = "handle_multipart"}

\* The requests a client may send now, drawn from the given form values.
\* The bounds stop new logins, posts and uploads once the model is full.
RequestsOf(kinds, usernames, passwords, texts, filenames, sizes, maxTokens) ==
    LET mayLogin == next_token + Cardinality(LoggingIn) < maxTokens
        mayPost == Cardinality(messages) + Cardinality(Posting) < MaxMessages
        mayStore == next_file_id + Cardinality(Storing) < MaxFiles
    IN  {r \in
            {Request("register", u, p, NoToken, "", "", 0) :
                u \in usernames, p \in passwords}
            \cup {Request("login", u, p, NoToken, "", "", 0) :
                u \in {x \in usernames : mayLogin}, p \in passwords}
            \cup {Request("logout", "", "", c, "", "", 0) : c \in Cookies}
            \cup {Request("messages", "", "", c, "", "", 0) : c \in Cookies}
            \cup {Request("message", "", "", c, m, "", 0) :
                c \in {x \in Cookies : mayPost}, m \in texts}
            \cup {Request("multipart", "", "", c, m, f, z) :
                c \in {x \in Cookies : mayPost /\ mayStore},
                m \in texts, f \in filenames, z \in sizes}
         : r.kind \in kinds}

\* The handler do_GET / do_POST dispatches the request to.
dispatch(r) ==
    CASE r.kind = "register"  -> "handle_register"
      [] r.kind = "login"     -> "handle_login"
      [] r.kind = "logout"    -> "handle_logout"
      [] r.kind = "messages"  -> "handle_messages"
      [] r.kind = "message"   -> "handle_message"
      [] r.kind = "multipart" -> "handle_multipart"

(***************************************************************************)
(* Steps of a worker.                                                      *)
(***************************************************************************)
Goto(w, label) == pc' = [pc EXCEPT ![w] = label]

\* The handler goes on to its next step, with its local variables `locals`.
Continue(w, label, locals) ==
    /\ Goto(w, label)
    /\ frame' = [frame EXCEPT ![w] = locals]
    /\ UNCHANGED <<req, resp>>

\* The handler sends `response` and returns.
Respond(w, response) ==
    /\ resp' = [resp EXCEPT ![w] = response]
    /\ req' = [req EXCEPT ![w] = NoRequest]
    /\ frame' = [frame EXCEPT ![w] = NoFrame]
    /\ Goto(w, "idle")

\* A request arrives at an idle worker; do_GET / do_POST dispatch it.
Receive(w, requests) ==
    /\ pc[w] = "idle"
    /\ \E r \in requests :
        /\ req' = [req EXCEPT ![w] = r]
        /\ Goto(w, dispatch(r))
    /\ resp' = [resp EXCEPT ![w] = Pending]
    /\ UNCHANGED <<users, registered, messages, inserted, message_history,
                   session_tokens, uploads, lock, next_token, next_file_id, frame>>

handle_register(w) ==
    /\ pc[w] = "handle_register"
    /\ LET username == req[w].username
           password == req[w].password
       IN  IF username # "" /\ password # ""
           THEN \E salt \in Salts :
                  IF register_user_ok(username)
                  THEN /\ users' = DictSet(users, username, register_user_row(password, salt))
                       /\ registered' = DictSet(registered, username, password)
                       /\ Respond(w, Success)
                  ELSE /\ UNCHANGED <<users, registered>>
                       /\ Respond(w, Failure("Username already exists"))
           ELSE /\ UNCHANGED <<users, registered>>
                /\ Respond(w, Failure("Invalid data"))
    /\ UNCHANGED <<messages, inserted, message_history, session_tokens, uploads,
                   lock, next_token, next_file_id>>

handle_login(w) ==
    /\ pc[w] = "handle_login"
    /\ LET username == req[w].username
           password == req[w].password
       IN  IF username # "" /\ password # ""
           THEN IF verify_user(username, password)
                THEN Continue(w, "login_issue", frame[w])
                ELSE Respond(w, Failure("Invalid credentials"))
           ELSE Respond(w, Failure("Invalid data"))
    /\ UNCHANGED <<users, registered, messages, inserted, message_history,
                   session_tokens, uploads, lock, next_token, next_file_id>>

\* session_tokens[token] = username, and the response with the cookie.
login_issue(w) ==
    /\ pc[w] = "login_issue"
    /\ session_tokens' = DictSet(session_tokens, new_token, req[w].username)
    /\ next_token' = next_token + 1
    /\ Respond(w, Response(200, "success", new_token, << >>))
    /\ UNCHANGED <<users, registered, messages, inserted, message_history,
                   uploads, lock, next_file_id>>

\* The response of handle_logout: 200, with the cookie cleared.
LoggedOut == Response(200, "", "", << >>)

\* if token in session_tokens
handle_logout(w) ==
    /\ pc[w] = "handle_logout"
    /\ IF req[w].cookie \in DOMAIN session_tokens
       THEN Continue(w, "logout_del", frame[w])
       ELSE Respond(w, LoggedOut)
    /\ UNCHANGED <<users, registered, messages, inserted, message_history,
                   session_tokens, uploads, lock, next_token, next_file_id>>

\* del session_tokens[token]: a KeyError when the token is gone, which
\* do_POST answers with send_error(500).
logout_del(w) ==
    /\ pc[w] = "logout_del"
    /\ IF req[w].cookie \in DOMAIN session_tokens
       THEN /\ session_tokens' = DictDel(session_tokens, req[w].cookie)
            /\ Respond(w, LoggedOut)
       ELSE /\ session_tokens' = session_tokens
            /\ Respond(w, send_error(500))
    /\ UNCHANGED <<users, registered, messages, inserted, message_history,
                   uploads, lock, next_token, next_file_id>>

\* GET /api/messages
handle_messages(w) ==
    /\ pc[w] = "handle_messages"
    /\ IF verify_session(req[w].cookie)
       THEN Continue(w, "messages_select", frame[w])
       ELSE Respond(w, send_error(401))
    /\ UNCHANGED <<users, registered, messages, inserted, message_history,
                   session_tokens, uploads, lock, next_token, next_file_id>>

messages_select(w) ==
    /\ pc[w] = "messages_select"
    /\ Respond(w, Response(200, "messages", Null, get_recent_messages(DefaultLimit)))
    /\ UNCHANGED <<users, registered, messages, inserted, message_history,
                   session_tokens, uploads, lock, next_token, next_file_id>>

handle_message(w) ==
    /\ pc[w] = "handle_message"
    /\ IF verify_session(req[w].cookie)
       THEN Continue(w, "message_lookup", frame[w])
       ELSE Respond(w, send_error(401))
    /\ UNCHANGED <<users, registered, messages, inserted, message_history,
                   session_tokens, uploads, lock, next_token, next_file_id>>

\* A handler that appends whatever text the form holds.
message_lookup_unchecked(w) ==
    /\ pc[w] = "message_lookup"
    /\ LET username == get_username_from_session(req[w].cookie)
       IN  IF username # Null
           THEN Continue(w, "add_message_insert", Frame(username, Null, NullSize))
           ELSE Respond(w, Failure("Invalid message"))
    /\ UNCHANGED <<users, registered, messages, inserted, message_history,
                   session_tokens, uploads, lock, next_token, next_file_id>>

message_lookup(w) ==
    /\ pc[w] = "message_lookup"
    /\ LET username == get_username_from_session(req[w].cookie)
       IN  IF req[w].message # "" /\ username # Null
           THEN Continue(w, "add_message_insert", Frame(username, Null, NullSize))
           ELSE Respond(w, Failure("Invalid message"))
    /\ UNCHANGED <<users, registered, messages, inserted, message_history,
                   session_tokens, uploads, lock, next_token, next_file_id>>

\* A call that leaves message_type at its default for an upload too.
add_message_args_default_type(w) ==
    message_row(frame[w].username, req[w].message, "text",
                frame[w].file_name, frame[w].file_size)

\* The arguments of the add_message call the worker is in.
add_message_args(w) ==
    IF req[w].kind = "multipart"
    THEN message_row(frame[w].username,
                     IF req[w].message # "" THEN req[w].message ELSE "Shared a file",
                     "file", frame[w].file_name, frame[w].file_size)
    ELSE message_row(frame[w].username, req[w].message, "text", Null, NullSize)

\* INSERT INTO messages: the row, with the id the table assigns.
insert_message(row) == [id |-> next_id] @@ row

add_message_insert(w) ==
    /\ pc[w] = "add_message_insert"
    /\ messages' = messages \cup {insert_message(add_message_args(w))}
    /\ inserted' = Append(inserted, insert_message(add_message_args(w)))
    /\ Continue(w, "add_message_lock", frame[w])
    /\ UNCHANGED <<users, registered, message_history, session_tokens, uploads,
                   lock, next_token, next_file_id>>

\* with self.lock
add_message_lock(w) ==
    /\ pc[w] = "add_message_lock"
    /\ lock = NoWorker
    /\ lock' = w
    /\ Continue(w, "add_message_mirror", frame[w])
    /\ UNCHANGED <<users, registered, messages, inserted, message_history,
                   session_tokens, uploads, next_token, next_file_id>>

\* The body of the with block, the release of the lock, and the caller's
\* serve_json({'success': True}).
add_message_mirror(w) ==
    /\ pc[w] = "add_message_mirror"
    /\ message_history' = mirror_append(message_history, add_message_args(w))
    /\ lock' = NoWorker
    /\ Respond(w, Success)
    /\ UNCHANGED <<users, registered, messages, inserted, session_tokens,
                   uploads, next_token, next_file_id>>

\* A limit that refuses a payload of exactly 50 MiB too.
too_large_inclusive(file_size) == file_size >= MaxFileSize

\* file_size > 50 * 1024 * 1024
too_large(file_size) == file_size > MaxFileSize

\* The parts have been decoded into the file payload (here its length), the
\* filename and the message text.
handle_multipart(w) ==
    /\ pc[w] = "handle_multipart"
    /\ LET file_size == req[w].file_size
           filename == req[w].filename
       IN  IF file_size # 0 /\ filename # ""
           THEN IF too_large(file_size)
                THEN /\ Respond(w, Failure("File too large"))
                     /\ UNCHANGED <<uploads, next_file_id>>
                ELSE LET key == storage_key(new_file_id, filename)
                     IN  /\ uploads' = DictSet(uploads, key, file_size)
                         /\ next_file_id' = next_file_id + 1
                         /\ Continue(w, "multipart_lookup", Frame(Null, key, file_size))
           ELSE /\ Respond(w, NoResponse)
                /\ UNCHANGED <<uploads, next_file_id>>
    /\ UNCHANGED <<users, registered, messages, inserted, message_history,
                   session_tokens, lock, next_token>>

multipart_lookup(w) ==
    /\ pc[w] = "multipart_lookup"
    /\ LET username == get_username_from_session(req[w].cookie)
       IN  IF username # Null
           THEN Continue(w, "add_message_insert", [frame[w] EXCEPT !.username = username])
           ELSE Respond(w, send_error(401))
    /\ UNCHANGED <<users, registered, messages, inserted, message_history,
                   session_tokens, uploads, lock, next_token, next_file_id>>

(***************************************************************************)
(* The system: the handlers run by concurrent workers.                     *)
(***************************************************************************)
Init ==
    /\ users = << >>
    /\ registered = << >>
    /\ messages = {}
    /\ inserted = << >>
    /\ message_history = << >>
    /\ session_tokens = << >>
    /\ uploads = << >>
    /\ lock = NoWorker
    /\ next_token = 0
    /\ next_file_id = 0
    /\ pc = [w \in Workers |-> "idle"]
    /\ req = [w \in Workers |-> NoRequest]
    /\ frame = [w \in Workers |-> NoFrame]
    /\ resp = [w \in Workers |-> NoResponse]

AllKinds == {"register", "login", "logout", "messages", "message", "multipart"}

\* The message exchange: one account, every kind of request.
ChatRequests ==
    RequestsOf(AllKinds, ChatUsernames, ChatPasswords, FormMessages,
               PartFilenames, PartFileSizes, MaxChatTokens)

Next ==
    \E w \in Workers :
        \/ Receive(w, ChatRequests)
        \/ handle_register(w)
        \/ handle_login(w)
        \/ login_issue(w)
        \/ handle_logout(w)
        \/ logout_del(w)
        \/ handle_messages(w)
        \/ messages_select(w)
        \/ handle_message(w)
        \/ message_lookup(w)
        \/ add_message_insert(w)
        \/ add_message_lock(w)
        \/ add_message_mirror(w)
        \/ handle_multipart(w)
        \/ multipart_lookup(w)

Spec == Init /\ [][Next]_vars

AuthKinds == {"register", "login", "logout", "messages"}

\* The accounts and sessions: every form value, no message posted.
AuthRequests ==
    RequestsOf(AuthKinds, FormUsernames, FormPasswords, {}, {}, {}, MaxAuthTokens)

NextAuth ==
    \E w \in Workers :
        \/ Receive(w, AuthRequests)
        \/ handle_register(w)
        \/ handle_login(w)
        \/ login_issue(w)
        \/ handle_logout(w)
        \/ logout_del(w)
        \/ handle_messages(w)
        \/ messages_select(w)

SpecAuth == Init /\ [][NextAuth]_vars

(***************************************************************************)
(* The multipart decoder of handle_multipart.  Bodies are strings of ASCII *)
(* characters, which decode() leaves as they are; positions are counted    *)
(* from 0 as in Python.                                                    *)
(***************************************************************************)
Min(S) == CHOOSE x \in S : \A y \in S : x <= y

\* s.find(sub, start): the first position >= start where sub occurs, or -1.
Find(s, sub, start) ==
    LET hits == {i \in start..(Len(s) - Len(sub)) : SubSeq(s, i + 1, i + Len(sub)) = sub}
    IN  IF hits = {} THEN -1 ELSE Min(hits)

\* s.rfind(sub): the last position where sub occurs, or -1.
RFind(s, sub) ==
    LET hits == {i \in 0..(Len(s) - Len(sub)) : SubSeq(s, i + 1, i + Len(sub)) = sub}
    IN  IF hits = {} THEN -1 ELSE Max(hits)

\* sub in s
Contains(s, sub) == Find(s, sub, 0) # -1

\* s[a:b], a and b clipped as Python clips the ends of a slice.
Slice(s, a, b) ==
    LET clip(i) == IF i < 0 THEN (IF Len(s) + i < 0 THEN 0 ELSE Len(s) + i)
                   ELSE (IF i > Len(s) THEN Len(s) ELSE i)
    IN  SubSeq(s, clip(a) + 1, clip(b))

\* s.split(sep): the pieces between the occurrences of sep, left to right.
RECURSIVE Split(_, _)
Split(s, sep) ==
    LET i == Find(s, sep, 0)
    IN  IF i = -1 THEN <<s>>
        ELSE <<Slice(s, 0, i)>> \o Split(Slice(s, i + Len(sep), Len(s)), sep)

\* s.split(sep, 1): one piece when sep does not occur, else two.
SplitOnce(s, sep) ==
    LET i == Find(s, sep, 0)
    IN  IF i = -1 THEN <<s>>
        ELSE <<Slice(s, 0, i), Slice(s, i + Len(sep), Len(s))>>

\* s.rsplit(sep, 1)[0]
RsplitHead(s, sep) ==
    LET i == RFind(s, sep)
    IN  IF i = -1 THEN s ELSE Slice(s, 0, i)

CRLF == "\r\n"
NameFile == "name=\"file\""
NameMessage == "name=\"message\""
FilenameMarker == "filename=\""
Quote == "\""

\* A delimiter cut short: the two dashes and the first character of the
\* boundary.
delimiter_prefix(boundary) == "--" \o Slice(boundary, 0, 1)

\* b'--' + boundary.encode()
delimiter(boundary) == "--" \o boundary

\* The locals of the decoder: file_data (has_file: it is not None), filename
\* ("" also while it is None) and message_text; error: an exception left the
\* loop.
Decoded(has_file, file_data, filename, message_text, error) ==
    [has_file |-> has_file, file_data |-> file_data, filename |-> filename,
     message_text |-> message_text, error |-> error]

NothingDecoded == Decoded(FALSE, "", "", "", FALSE)
DecodeError == Decoded(FALSE, "", "", "", TRUE)

\* b'name="file"' in part and b'filename="' in part
is_file_part(part) == Contains(part, NameFile) /\ Contains(part, FilenameMarker)

\* One round of the loop over the parts.
parse_part(part, acc) ==
    IF is_file_part(part)
    THEN LET pieces == SplitOnce(part, CRLF \o CRLF)
         IN  IF Len(pieces) < 2 THEN DecodeError
             ELSE LET headers == pieces[1]
                      file_content == RsplitHead(pieces[2], CRLF)
                      filename_start == Find(headers, FilenameMarker, 0) + 10
                      filename_end == Find(headers, Quote, filename_start)
                  IN  [acc EXCEPT !.has_file = TRUE,
                                  !.file_data = file_content,
                                  !.filename = Slice(headers, filename_start, filename_end)]
    ELSE IF Contains(part, NameMessage)
    THEN LET pieces == SplitOnce(part, CRLF \o CRLF)
         IN  IF Len(pieces) < 2 THEN DecodeError
             ELSE [acc EXCEPT !.message_text = RsplitHead(pieces[2], CRLF)]
    ELSE acc

\* for part in parts: ...
RECURSIVE parse_parts(_, _)
parse_parts(parts, acc) ==
    IF parts = << >> \/ acc.error THEN acc
    ELSE parse_parts(Tail(parts), parse_part(Head(parts), acc))

\* content_type.split('boundary=')[1], data.split(b'--' + boundary), and the
\* loop; IndexError when the content type names no boundary.
parse_multipart(data, content_type) ==
    LET params == Split(content_type, "boundary=")
    IN  IF Len(params) < 2 THEN DecodeError
        ELSE parse_parts(Split(data, delimiter(params[2])), NothingDecoded)

(***************************************************************************)
(* Uploads as the client sends them: the multipart body that FormData      *)
(* builds from the selected file and the message text, and the handler     *)
(* steps that decode it.                                                   *)
(***************************************************************************)
UploadFilenames == {"", "photo.png", "f_g"}
UploadPayloads ==
    {"", "0123456789", "a\r\nb\r\n", "a--Xb", "-XY--\r\n--X", "x filename=\"y\"", "a--XYb"}
UploadTexts == {"", "hello", "hi\r\n--X", "name=\"file\" filename=\"x\""}
\* Content-Type headers: with the boundary, and without one.
UploadContentTypes == {"multipart/form-data; boundary=XY", "multipart/form-data"}
\* The boundary the client chose, and the delimiter line it makes of it.
ClientBoundary == "XY"
ClientDelimiter == "--" \o ClientBoundary

\* What the client puts into the body: the file part (its filename
\* attribute, when it has one, and its payload) and the message part (when
\* it has one), in either order.
Form(has_filename, filename, payload, has_message, text, message_first) ==
    [has_filename |-> has_filename, filename |-> filename, payload |-> payload,
     has_message |-> has_message, text |-> text, message_first |-> message_first]

UploadForms ==
    {Form(hf, f, b, hm, t, mf) :
        hf \in BOOLEAN, f \in UploadFilenames, b \in UploadPayloads,
        hm \in BOOLEAN, t \in UploadTexts, mf \in BOOLEAN}

file_part(form) ==
    CRLF \o "Content-Disposition: form-data; name=\"file\""
         \o (IF form.has_filename
             THEN "; " \o FilenameMarker \o form.filename \o Quote ELSE "")
         \o CRLF \o "Content-Type: application/octet-stream"
         \o CRLF \o CRLF \o form.payload \o CRLF

message_part(form) ==
    CRLF \o "Content-Disposition: form-data; name=\"message\""
         \o CRLF \o CRLF \o form.text \o CRLF

\* The body: the parts, each after a delimiter line, and the closing
\* delimiter.
encode_form(form) ==
    LET d == ClientDelimiter
        m == IF form.has_message THEN d \o message_part(form) ELSE ""
        f == d \o file_part(form)
    IN  (IF form.message_first THEN m \o f ELSE f \o m) \o d \o "--" \o CRLF

\* A POST with a multipart/form-data content type and no session cookie.
UploadRequest(form, content_type) ==
    [kind |-> "multipart", username |-> "", password |-> "", cookie |-> NoToken,
     message |-> "", filename |-> "", file_size |-> 0,
     content_type |-> content_type, data |-> encode_form(form), form |-> form,
     decoded |-> NothingDecoded]

\* run_server handles one request at a time: an upload arrives when no
\* request is being handled.
receive_upload(w) ==
    /\ \A v \in Workers : pc[v] = "idle"
    /\ next_file_id < MaxFiles
    /\ \E form \in UploadForms, content_type \in UploadContentTypes :
          req' = [req EXCEPT ![w] = UploadRequest(form, content_type)]
    /\ Goto(w, "multipart_parse")
    /\ resp' = [resp EXCEPT ![w] = Pending]
    /\ UNCHANGED <<users, registered, messages, inserted, message_history,
                   session_tokens, uploads, lock, next_token, next_file_id, frame>>

\* The first half of handle_multipart: the decoder.  An exception in it is
\* answered with 'File upload failed'; else the handler goes on with the
\* filename, the size of the payload and the message text.
multipart_parse(w) ==
    /\ pc[w] = "multipart_parse"
    /\ LET d == parse_multipart(req[w].data, req[w].content_type)
       IN  IF d.error
           THEN Respond(w, Failure("File upload failed"))
           ELSE /\ req' = [req EXCEPT ![w].decoded = d,
                                      ![w].message = d.message_text,
                                      ![w].filename = d.filename,
                                      ![w].file_size = Len(d.file_data)]
                /\ Goto(w, "handle_multipart")
                /\ UNCHANGED <<frame, resp>>
    /\ UNCHANGED <<users, registered, messages, inserted, message_history,
                   session_tokens, uploads, lock, next_token, next_file_id>>

NextDecode ==
    \E w \in Workers :
        \/ receive_upload(w)
        \/ multipart_parse(w)
        \/ handle_multipart(w)
        \/ multipart_lookup(w)

SpecDecode == Init /\ [][NextDecode]_vars

\* The paths a client may ask for: the attachments stored, a name that was
\* never stored, and no name at all.
DownloadPaths ==
    {"/download/" \o k : k \in DOMAIN uploads \cup {"u0_none", ""}}

\* GET /download/<name>
DownloadRequest(path) ==
    [kind |-> "download", username |-> "", password |-> "", cookie |-> NoToken,
     message |-> "", filename |-> "", file_size |-> 0, path |-> path]

receive_download(w) ==
    /\ \A v \in Workers : pc[v] = "idle"
    /\ \E path \in DownloadPaths :
          req' = [req EXCEPT ![w] = DownloadRequest(path)]
    /\ Goto(w, "handle_download")
    /\ resp' = [resp EXCEPT ![w] = Pending]
    /\ UNCHANGED <<users, registered, messages, inserted, message_history,
                   session_tokens, uploads, lock, next_token, next_file_id, frame>>

\* self.path.split('/')[-1]
path_filename(path) ==
    LET segments == Split(path, "/") IN segments[Len(segments)]

\* os.path.exists(os.path.join('uploads', filename)): a stored attachment,
\* or the directory itself when the name is empty.
upload_exists(filename) == filename \in DOMAIN uploads \/ filename = ""

\* The name as the client script shows it: split('_', 2)[1] of JavaScript.
download_name_first_piece(filename) == Split(filename, "_")[2]

\* filename.split("_", 1)[1]
download_name(filename) == SplitOnce(filename, "_")[2]

\* The attachment as sent: its Content-Disposition filename and its length.
Attachment(name, size) == Response(200, "attachment", Null, <<name, size>>)

\* handle_download: 404 when nothing is stored under the name, 500 when the
\* name has no '_' to split at (IndexError), else the attachment.
handle_download(w) ==
    /\ pc[w] = "handle_download"
    /\ LET filename == path_filename(req[w].path)
       IN  IF upload_exists(filename)
           THEN IF Contains(filename, "_")
                THEN Respond(w, Attachment(download_name(filename), uploads[filename]))
                ELSE Respond(w, send_error(500))
           ELSE Respond(w, send_error(404))
    /\ UNCHANGED <<users, registered, messages, inserted, message_history,
                   session_tokens, uploads, lock, next_token, next_file_id>>

\* The attachments: uploads as the decoder hands them on, with filenames
\* with and without underscores, and downloads; one request at a time.
StoredFilenames == {"photo.png", "f_g", "a_b_c"}

FileRequests ==
    {Request("multipart", "", "", NoToken, "", f, z) :
        f \in StoredFilenames, z \in PartFileSizes \cup {10}}

receive_file(w) ==
    /\ \A v \in Workers : pc[v] = "idle"
    /\ next_file_id < MaxUploads
    /\ Receive(w, FileRequests)

NextFiles ==
    \E w \in Workers :
        \/ receive_file(w)
        \/ handle_multipart(w)
        \/ multipart_lookup(w)
        \/ receive_download(w)
        \/ handle_download(w)

SpecFiles == Init /\ [][NextFiles]_vars

(***************************************************************************)
(* Storage faults and restarts.  A statement on users.db may raise an      *)
(* sqlite3 error (the file is locked, unreadable or has no tables); the    *)
(* process may be stopped and started again at any moment.                 *)
(***************************************************************************)
\* The steps at which a handler executes a statement on users.db.
StoreSteps == {"handle_register", "handle_login", "messages_select", "add_message_insert"}

\* A handler that answers with success whatever happened.
failure_swallowed(kind) == Success

\* The exception leaves the handler: handle_multipart catches it and answers
\* 'File upload failed', for the others do_GET / do_POST answer 500.
failure_response(kind) ==
    IF kind = "multipart" THEN Failure("File upload failed") ELSE send_error(500)

\* An append that goes on to its mirror update although its INSERT raised.
store_unavailable_mirrored(w) ==
    /\ pc[w] = "add_message_insert"
    /\ Continue(w, "add_message_lock", frame[w])
    /\ UNCHANGED <<users, registered, messages, inserted, message_history,
                   session_tokens, uploads, lock, next_token, next_file_id>>

\* The statement of the step raises: nothing is written.
store_unavailable(w) ==
    /\ pc[w] \in StoreSteps
    /\ pc[w] = "handle_register" => req[w].username # "" /\ req[w].password # ""
    /\ pc[w] = "handle_login" => req[w].username # "" /\ req[w].password # ""
    /\ Respond(w, failure_response(req[w].kind))
    /\ UNCHANGED <<users, registered, messages, inserted, message_history,
                   session_tokens, uploads, lock, next_token, next_file_id>>

\* What init_db leaves of a table: CREATE TABLE runs only when the table is
\* missing, so the rows stay; on a database error the except branch removes
\* users.db, and the tables that the next start creates are empty.
init_db(table, empty, database_error) == IF database_error THEN empty ELSE table

\* The process stops and starts again: the handlers running are gone with
\* their connections, BigAkoServer() starts with an empty mirror and an
\* empty session map, and init_db runs.  uploads/ stays as it is.
restart ==
    /\ \E database_error \in BOOLEAN :
        /\ users' = init_db(users, << >>, database_error)
        /\ registered' = init_db(registered, << >>, database_error)
        /\ messages' = init_db(messages, {}, database_error)
        /\ inserted' = init_db(inserted, << >>, database_error)
    /\ message_history' = << >>
    /\ session_tokens' = << >>
    /\ lock' = NoWorker
    /\ pc' = [w \in Workers |-> "idle"]
    /\ req' = [w \in Workers |-> NoRequest]
    /\ frame' = [w \in Workers |-> NoFrame]
    /\ resp' = [w \in Workers |-> NoResponse]
    /\ UNCHANGED <<uploads, next_token, next_file_id>>

\* The requests of the one account, with a text and with an attachment of
\* the largest size admitted.
FaultRequests ==
    RequestsOf(AllKinds, ChatUsernames, ChatPasswords, {"hi"}, {"f_g"},
               {MaxFileSize}, MaxChatTokens)

NextFaults ==
    \/ \E w \in Workers :
        \/ Receive(w, FaultRequests)
        \/ handle_register(w)
        \/ handle_login(w)
        \/ login_issue(w)
        \/ handle_logout(w)
        \/ logout_del(w)
        \/ handle_messages(w)
        \/ messages_select(w)
        \/ handle_message(w)
        \/ message_lookup(w)
        \/ add_message_insert(w)
        \/ add_message_lock(w)
        \/ add_message_mirror(w)
        \/ handle_multipart(w)
        \/ multipart_lookup(w)
        \/ store_unavailable(w)
    \/ restart

SpecFaults == Init /\ [][NextFaults]_vars

(***************************************************************************)
(* The current user: GET /api/userinfo, next to the requests that post a   *)
(* message and that end the session.                                       *)
(***************************************************************************)
UserinfoRequest(cookie) == Request("userinfo", "", "", cookie, "", "", 0)

receive_userinfo(w) ==
    /\ pc[w] = "idle"
    /\ \E cookie \in Cookies :
          req' = [req EXCEPT ![w] = UserinfoRequest(cookie)]
    /\ Goto(w, "handle_userinfo")
    /\ resp' = [resp EXCEPT ![w] = Pending]
    /\ UNCHANGED <<users, registered, messages, inserted, message_history,
                   session_tokens, uploads, lock, next_token, next_file_id, frame>>

\* if self.verify_session()
handle_userinfo(w) ==
    /\ pc[w] = "handle_userinfo"
    /\ IF verify_session(req[w].cookie)
       THEN Continue(w, "userinfo_lookup", frame[w])
       ELSE Respond(w, send_error(401))
    /\ UNCHANGED <<users, registered, messages, inserted, message_history,
                   session_tokens, uploads, lock, next_token, next_file_id>>

\* serve_json({'username': username}); None is sent as null.
Userinfo(username) == Response(200, "username", Null, <<username>>)

\* username = self.get_username_from_session(), and the response.
userinfo_lookup(w) ==
    /\ pc[w] = "userinfo_lookup"
    /\ Respond(w, Userinfo(get_username_from_session(req[w].cookie)))
    /\ UNCHANGED <<users, registered, messages, inserted, message_history,
                   session_tokens, uploads, lock, next_token, next_file_id>>

SessionKinds == {"register", "login", "logout", "message"}

\* The one account: it logs in and out, posts a text and asks who it is.
SessionRequests ==
    RequestsOf(SessionKinds, ChatUsernames, ChatPasswords, {"hi"}, {}, {},
               MaxChatTokens)

NextSession ==
    \E w \in Workers :
        \/ Receive(w, SessionRequests)
        \/ receive_userinfo(w)
        \/ handle_register(w)
        \/ handle_login(w)
        \/ login_issue(w)
        \/ handle_logout(w)
        \/ logout_del(w)
        \/ handle_message(w)
        \/ message_lookup(w)
        \/ add_message_insert(w)
        \/ add_message_lock(w)
        \/ add_message_mirror(w)
        \/ handle_userinfo(w)
        \/ userinfo_lookup(w)

SpecSession == Init /\ [][NextSession]_vars

(***************************************************************************)
(* Forms with fields left empty: registrations, logins and posts of the    *)
(* one account.                                                            *)
(***************************************************************************)
EmptyOr(values) == {""} \cup values

FormKinds == {"register", "login", "message"}

FormRequests ==
    RequestsOf(FormKinds, EmptyOr(ChatUsernames), EmptyOr(ChatPasswords),
               FormMessages, {}, {}, MaxChatTokens)

NextForms ==
    \E w \in Workers :
        \/ Receive(w, FormRequests)
        \/ handle_register(w)
        \/ handle_login(w)
        \/ login_issue(w)
        \/ handle_message(w)
        \/ message_lookup(w)
        \/ add_message_insert(w)
        \/ add_message_lock(w)
        \/ add_message_mirror(w)

SpecForms == Init /\ [][NextForms]_vars

(***************************************************************************)
(* The log and its readers: the one account posts texts and lists the      *)
(* recent messages.                                                        *)
(***************************************************************************)
RecentKinds == {"register", "login", "messages", "message"}

PostedTexts == {"hi", "yo"}

RecentRequests ==
    RequestsOf(RecentKinds, ChatUsernames, ChatPasswords, PostedTexts, {}, {},
               MaxChatTokens)

NextRecent ==
    \E w \in Workers :
        \/ Receive(w, RecentRequests)
        \/ handle_register(w)
        \/ handle_login(w)
        \/ login_issue(w)
        \/ handle_messages(w)
        \/ messages_select(w)
        \/ handle_message(w)
        \/ message_lookup(w)
        \/ add_message_insert(w)
        \/ add_message_lock(w)
        \/ add_message_mirror(w)

SpecRecent == Init /\ [][NextRecent]_vars

(***************************************************************************)
(* The claims.                                                             *)
(***************************************************************************)
\* Worker w takes the step; the step ends w's request.
Acts(w) == pc'[w] # pc[w]
Ends(w) == pc[w] # "idle" /\ pc'[w] = "idle"

\* The tokens that logins have issued so far.
IssuedTokens == {ToString(n) : n \in 1..next_token}

\* The rows of the log in the order of their ids, oldest first.
LogRows == get_recent_messages(Cardinality(messages))

\* The workers whose append has written its row and not yet the mirror.
Appending == {w \in Workers : pc[w] \in {"add_message_lock", "add_message_mirror"}}

\* The request lists the recent messages or posts one: a form-encoded
\* message, or a multipart body with a file part of an admissible size.
ListsOrPosts(r) ==
    \/ r.kind \in {"messages", "message"}
    \/ /\ r.kind = "multipart"
       /\ r.filename # ""
       /\ r.file_size > 0
       /\ r.file_size <= MaxFileSize

\* C1: a request to list the recent messages or to post a message
\* (form-encoded or multipart) whose token is not in the session registry
\* changes neither the log, the mirror, the stored attachments nor the
\* registry, and is answered with 401.
C1_UnauthenticatedNoEffect ==
    [][\A w \in Workers :
        (/\ Acts(w)
         /\ ListsOrPosts(req[w])
         /\ ~verify_session(req[w].cookie))
        => /\ UNCHANGED <<messages, message_history, uploads, session_tokens>>
           /\ Ends(w) => resp'[w] = send_error(401)]_vars

\* C2: the token a login issues resolves to the user who logged in, and
\* keeps resolving to that user through every step that is not a logout of
\* this token; once it is gone from the registry it never resolves again.
C2_TokenLifetime ==
    [][/\ \A w \in Workers :
            (pc[w] = "login_issue" /\ Acts(w))
            => /\ resp'[w].set_cookie \in DOMAIN session_tokens'
               /\ resp'[w].set_cookie \notin IssuedTokens
               /\ session_tokens'[resp'[w].set_cookie] = req[w].username
               /\ verify_user(req[w].username, req[w].password)
       /\ \A t \in IssuedTokens :
            /\ (/\ t \in DOMAIN session_tokens
                /\ ~\E w \in Workers :
                      Acts(w) /\ req[w].kind = "logout" /\ req[w].cookie = t)
               => /\ t \in DOMAIN session_tokens'
                  /\ session_tokens'[t] = session_tokens[t]
            /\ t \notin DOMAIN session_tokens => t \notin DOMAIN session_tokens'
            /\ (\E w \in Workers :
                    /\ Ends(w) /\ req[w].kind = "logout" /\ req[w].cookie = t
                    /\ resp'[w] = LoggedOut)
               => t \notin DOMAIN session_tokens']_vars

\* Two tokens were issued; the second was revoked by its logout and the
\* first still resolves to its user.
C2_Witness ==
    /\ next_token = 2
    /\ DOMAIN session_tokens = {"1"}
    /\ session_tokens["1"] = "a"
    /\ \E w \in Workers : resp[w] = LoggedOut

\* C3: verify(u, q) is true exactly when u was registered and q is the
\* password it was registered with: the registered password verifies, every
\* other password does not, and no password verifies for a username that
\* was never registered.
C3_VerifyAfterRegister ==
    \A u \in FormUsernames, q \in FormPasswords :
        verify_user(u, q) <=> (u \in DOMAIN registered /\ registered[u] = q)

\* One username is registered, its password verifies and another password
\* does not; another username is not registered.
C3_Witness ==
    /\ "a" \in DOMAIN registered
    /\ registered["a"] = "p"
    /\ verify_user("a", "p")
    /\ ~verify_user("a", "q")
    /\ "b" \notin DOMAIN registered
    /\ ~verify_user("b", "p")

\* C4: register_user for a username that has an account answers
\* 'Username already exists' and leaves the table as it is; for a username
\* without an account it succeeds and adds its record; no step changes the
\* record of an existing account, so of the registrations of one username,
\* concurrent or not, one succeeds.
C4_DuplicateRegistration ==
    [][/\ \A w \in Workers, u \in FormUsernames \ {""}, p \in FormPasswords \ {""} :
            (/\ pc[w] = "handle_register" /\ Acts(w)
             /\ req[w].username = u /\ req[w].password = p)
            => IF u \in DOMAIN users
               THEN /\ resp'[w] = Failure("Username already exists")
                    /\ users' = users
               ELSE /\ resp'[w] = Success
                    /\ DOMAIN users' = DOMAIN users \cup {u}
                    /\ \A q \in FormPasswords : verify_user(u, q)' <=> (q = p)
       /\ \A u \in DOMAIN users :
            /\ u \in DOMAIN users'
            /\ users'[u] = users[u]
            /\ \A q \in FormPasswords : verify_user(u, q)' <=> verify_user(u, q)]_vars

\* Of two registrations of the only account, one succeeded and the other
\* was refused; the password of the first still verifies.
C4_Witness ==
    /\ DOMAIN users = {"a"}
    /\ \E w, v \in Workers :
        /\ resp[w] = Success
        /\ resp[v] = Failure("Username already exists")
    /\ verify_user("a", registered["a"])

\* C5: after N appends to the empty log, recent(N) returns the N messages in
\* the order they were inserted, and the ids the table gave them increase
\* in that order.
C5_RecentInInsertionOrder ==
    LET n == Len(inserted)
    IN  /\ get_recent_messages(n) = [i \in 1..n |-> row_of(inserted[i])]
        /\ \A i, j \in 1..n : i < j => inserted[i].id < inserted[j].id

\* Two different messages were appended.
C5_Witness ==
    /\ Len(inserted) = 2
    /\ row_of(inserted[1]) # row_of(inserted[2])
    /\ Appending = {}

\* C6: after N appends by the workers, in any interleaving, the log holds N
\* records with N different ids, and recent(N) returns N rows whose ids are
\* those of the appends, none twice and none missing.
C6_ConcurrentAppendsDistinctIds ==
    LET n == Len(inserted)
        rows == select_recent(n)
    IN  /\ Cardinality(messages) = n
        /\ Cardinality({m.id : m \in messages}) = n
        /\ Len(rows) = n
        /\ \A i, j \in 1..n : i # j => rows[i].id # rows[j].id
        /\ {rows[i].id : i \in 1..n} = {inserted[i].id : i \in 1..n}

\* Both workers have inserted their row and neither has finished its append.
C6_Witness ==
    /\ Len(inserted) = 2
    /\ Appending = Workers

C9_LogoutRequiresSession ==
    [][\A w \in Workers :
        (/\ pc[w] = "handle_logout" /\ Acts(w)
         /\ ~verify_session(req[w].cookie))
        => resp'[w] = send_error(401)]_vars

C11_SessionFrame ==
    [][\A w \in Workers :
        Acts(w) =>
          CASE pc[w] = "login_issue" ->
                 \E t \in DOMAIN session_tokens' \ DOMAIN session_tokens :
                    /\ DOMAIN session_tokens' = DOMAIN session_tokens \cup {t}
                    /\ session_tokens'[t] = req[w].username
                    /\ \A o \in DOMAIN session_tokens :
                          session_tokens'[o] = session_tokens[o]
            [] pc[w] = "logout_del" ->
                 /\ DOMAIN session_tokens' = DOMAIN session_tokens \ {req[w].cookie}
                 /\ \A o \in DOMAIN session_tokens' :
                       session_tokens'[o] = session_tokens[o]
            [] OTHER -> session_tokens' = session_tokens]_vars

\* The only account logged in twice and holds two tokens at once.
C11_Witness ==
    /\ DOMAIN users = {"a"}
    /\ DOMAIN session_tokens = {"1", "2"}
    /\ session_tokens["1"] = "a"
    /\ session_tokens["2"] = "a"

\* C12: a login with an unknown username and a login with a known username
\* and a wrong password get the same answer, 'Invalid credentials' without a
\* cookie, and add no token; a token is only ever added for credentials
\* that verify.
C12_GenericLoginFailure ==
    [][\A w \in Workers, u \in FormUsernames \ {""}, p \in FormPasswords \ {""} :
        /\ (/\ pc[w] = "handle_login" /\ Acts(w)
            /\ req[w].username = u /\ req[w].password = p
            /\ (u \notin DOMAIN registered \/ registered[u] # p))
           => /\ resp'[w] = Failure("Invalid credentials")
              /\ resp'[w].set_cookie = Null
              /\ session_tokens' = session_tokens
        /\ (/\ Acts(w)
            /\ req[w].username = u /\ req[w].password = p
            /\ DOMAIN session_tokens' # DOMAIN session_tokens
            /\ req[w].kind # "logout")
           => /\ u \in DOMAIN registered
              /\ registered[u] = p]_vars

\* One login was refused while another, for the registered username with a
\* wrong password, is about to be; no session exists.
C12_Witness ==
    /\ DOMAIN registered = {"a"}
    /\ session_tokens = << >>
    /\ \E w, v \in Workers :
        /\ resp[w] = Failure("Invalid credentials")
        /\ pc[v] = "handle_login"
        /\ req[v].username = "a"
        /\ req[v].password \notin {"", registered["a"]}

\* Worker w runs the decoder on a body whose content type names the
\* boundary.
Decodes(w) ==
    /\ pc[w] = "multipart_parse"
    /\ Acts(w)
    /\ Contains(req[w].content_type, "boundary=" \o ClientBoundary)

\* C13: of a body with a file part (filename f, payload b) and a message
\* part (text t), neither holding the delimiter, the decoder yields the
\* filename f, the payload b as sent and the text t; when the file part has
\* no filename attribute it yields no file.
C13_DecoderYieldsFileAndText ==
    [][\A w \in Workers :
        (/\ Decodes(w)
         /\ req[w].form.has_message
         /\ ~Contains(req[w].form.payload, ClientDelimiter)
         /\ ~Contains(req[w].form.text, ClientDelimiter))
        => LET form == req[w].form
               d == parse_multipart(req[w].data, req[w].content_type)
           IN  IF form.has_filename
               THEN /\ d = Decoded(TRUE, form.payload, form.filename, form.text, FALSE)
                    /\ req'[w].decoded = d
               ELSE ~d.has_file]_vars

\* C14: a body whose file payload does not hold the delimiter, whatever
\* shorter or similar sequences it holds, is split into its parts and no
\* more: the file part is one piece, as sent, and the payload decoded from
\* it is the payload sent.
C14_SplitsOnExactDelimiter ==
    [][\A w \in Workers :
        (/\ Decodes(w)
         /\ req[w].form.has_filename
         /\ ~Contains(req[w].form.payload, ClientDelimiter)
         /\ ~Contains(req[w].form.text, ClientDelimiter))
        => LET form == req[w].form
               parts == Split(req[w].data, delimiter(ClientBoundary))
               n == IF form.has_message THEN 4 ELSE 3
           IN  /\ Len(parts) = n
               /\ \E i \in 1..n : parts[i] = file_part(form)
               /\ parse_part(file_part(form), NothingDecoded).file_data = form.payload
               /\ (form.has_message => ~Contains(form.text, NameFile))
                  => /\ req'[w].decoded.has_file
                     /\ req'[w].decoded.file_data = form.payload]_vars

\* A payload holding the start of the delimiter came out of the decoder as
\* it was sent.
C14_Witness ==
    \E w \in Workers :
        /\ pc[w] = "handle_multipart"
        /\ req[w].form.payload = "-XY--\r\n--X"
        /\ req[w].form.has_filename
        /\ req[w].decoded.has_file
        /\ req[w].decoded.file_data = req[w].form.payload
        /\ req[w].file_size = Len(req[w].form.payload)

\* The identifiers uuid4 has returned.
FileIds == {"u" \o ToString(n) : n \in 1..next_file_id}

\* C15: the key an upload stores its file under is new to uploads/, and
\* stripping its prefix gives the filename of the upload, underscores
\* included; a download of a stored key answers with the name stripped the
\* same way.
C15_StorageKeyRoundTrip ==
    [][\A w \in Workers :
        /\ (pc[w] = "handle_multipart" /\ pc'[w] = "multipart_lookup")
           => LET k == frame'[w].file_name
              IN  /\ k \notin DOMAIN uploads
                  /\ k \in DOMAIN uploads'
                  /\ download_name(k) = req[w].filename
        /\ (/\ pc[w] = "handle_download" /\ Acts(w)
            /\ path_filename(req[w].path) \in DOMAIN uploads)
           => \E id \in FileIds, f \in StoredFilenames :
                 /\ req[w].path = "/download/" \o storage_key(id, f)
                 /\ resp'[w] = Attachment(f, uploads[storage_key(id, f)])]_vars

\* Two uploads of the filename f_g are stored under two keys, and a
\* download was answered with the name f_g.
C15_Witness ==
    /\ DOMAIN uploads = {"u1_f_g", "u2_f_g"}
    /\ \E w \in Workers :
        /\ resp[w].body = "attachment"
        /\ resp[w].data[1] = "f_g"

\* A record has the attachment fields of its kind: a file message has a
\* name and a size, a text message has neither.
KindMatchesAttachment(m) ==
    /\ m.message_type \in {"text", "file"}
    /\ m.message_type = "file" <=> m.file_name # Null
    /\ m.file_name # Null <=> m.file_size # NullSize

\* C16: in the log and in the mirror, a record is of kind file exactly when
\* its attachment name is not null, and its size is not null in exactly the
\* same case.
C16_KindIffAttachment ==
    /\ \A m \in messages : KindMatchesAttachment(m)
    /\ \A i \in 1..Len(message_history) : KindMatchesAttachment(message_history[i])

\* The log and the mirror hold a text message and a file message.
C16_Witness ==
    /\ \E m, n \in messages : m.message_type = "text" /\ n.message_type = "file"
    /\ \E i, j \in 1..Len(message_history) :
        /\ message_history[i].message_type = "text"
        /\ message_history[j].message_type = "file"
        /\ message_history[j].file_name \in DOMAIN uploads

\* C17: a record of the log is in the log, unchanged, after every step, a
\* start of the process included.
C17_LogAppendOnly ==
    [][\A m \in messages : m \in messages']_vars

C19_MalformedUploadRejected ==
    [][\A w \in Workers :
        (/\ pc[w] = "handle_multipart" /\ Acts(w)
         /\ (req[w].filename = "" \/ req[w].file_size = 0))
        => /\ resp'[w] # NoResponse
           /\ resp'[w].status \in 400..499
           /\ messages' = messages]_vars

\* C20: a restart leaves the session map and the mirror empty, so that no
\* token issued before resolves, and leaves the accounts and the log as they
\* were: verify and recent return what they returned before.
C20_RestartKeepsDurableState ==
    [][restart =>
        /\ session_tokens' = << >>
        /\ message_history' = << >>
        /\ \A t \in IssuedTokens : ~verify_session(t)'
        /\ users' = users
        /\ messages' = messages
        /\ \A u \in FormUsernames, p \in FormPasswords :
              verify_user(u, p)' <=> verify_user(u, p)
        /\ get_recent_messages(DefaultLimit)' = get_recent_messages(DefaultLimit)]_vars

\* How often x occurs in the sequence s.
Occurrences(s, x) == Cardinality({i \in 1..Len(s) : s[i] = x})

\* The messages appended, in the order of their INSERTs.
AppendedRows == [i \in 1..Len(inserted) |-> row_of(inserted[i])]

\* C21: in every interleaving of the appends, a message is in the mirror as
\* often as it was appended, the appends that have not reached their mirror
\* update left out: none is added twice and none is lost.
C21_MirrorOncePerAppend ==
    \A r \in {AppendedRows[i] : i \in 1..Len(inserted)}
             \cup {message_history[i] : i \in 1..Len(message_history)} :
        Occurrences(message_history, r)
            + Cardinality({w \in Appending : add_message_args(w) = r})
        = Occurrences(AppendedRows, r)

\* Two appends interleaved: both are finished, and the mirror holds the two
\* messages in the order opposite to that of their INSERTs.
C21_Witness ==
    /\ Len(inserted) = 2
    /\ Len(message_history) = 2
    /\ Appending = {}
    /\ message_history[1] = AppendedRows[2]
    /\ message_history[2] = AppendedRows[1]
    /\ AppendedRows[1] # AppendedRows[2]

\* C22: in every state, those between the steps of concurrent appends and
\* those after an INSERT that raised included, a message is in the mirror
\* at most as often as the log holds a record of it: recent returns every
\* message of the mirror.
C22_MirrorWithinLog ==
    \A i \in 1..Len(message_history) :
        Occurrences(message_history, message_history[i])
            <= Occurrences(LogRows, message_history[i])

\* One append is finished and is in the mirror, a second has its record in
\* the log and not yet its mirror entry, and the INSERT of an upload raised
\* before.
C22_Witness ==
    /\ Len(message_history) = 1
    /\ Cardinality(messages) = 2
    /\ \E w, v \in Workers :
        /\ pc[w] = "add_message_lock"
        /\ resp[v] = Failure("File upload failed")

\* C23: a step that changes the session map is taken by a worker holding
\* the lock, as a step that changes the mirror is; two workers are never
\* both between the test and the del of a logout.
C23_MutationsUnderLock ==
    [][/\ message_history' # message_history
            => \E w \in Workers : lock = w /\ Acts(w)
       /\ session_tokens' # session_tokens
            => \E w \in Workers : lock = w /\ Acts(w)
       /\ Cardinality({w \in Workers : pc'[w] = "logout_del"}) <= 1]_vars

\* The part is taken for the text part: the elif branch of the loop.
is_text_part(part) == ~is_file_part(part) /\ Contains(part, NameMessage)

\* C24: of a body whose payload and text do not hold the delimiter, the
\* part taken for the file part is the part named file, when its headers
\* have a filename, and no other; the part taken for the text part is the
\* part named message and no other, whatever the payloads hold.
C24_ClassifiesByHeaders ==
    [][\A w \in Workers :
        (/\ Decodes(w)
         /\ ~Contains(req[w].form.payload, ClientDelimiter)
         /\ ~Contains(req[w].form.text, ClientDelimiter))
        => LET form == req[w].form
               parts == Split(req[w].data, delimiter(ClientBoundary))
           IN  \A i \in 1..Len(parts) :
                  /\ is_file_part(parts[i])
                        <=> (form.has_filename /\ parts[i] = file_part(form))
                  /\ is_text_part(parts[i])
                        <=> (form.has_message /\ parts[i] = message_part(form))]_vars

\* The limits a caller of recent may pass.
Limits == 1..(MaxMessages + 1)

\* The records with the `limit` largest ids.
Newest(limit) == {m \in messages : Cardinality({o \in messages : o.id > m.id}) < limit}

\* C25: recent(L), L >= 1, returns the min(L, M) records of the log with the
\* largest ids, the smallest of these ids first; the step that answers
\* GET /api/messages returns recent(50) and changes neither the log nor the
\* mirror.
C25_RecentReturnsNewest ==
    /\ [](\A limit \in Limits :
            LET rows == get_recent_messages(limit)
                M == Cardinality(messages)
            IN  /\ Len(rows) = IF limit <= M THEN limit ELSE M
                /\ Len(rows) = Cardinality(Newest(limit))
                /\ \A m \in Newest(limit) :
                      rows[1 + Cardinality({o \in Newest(limit) : o.id < m.id})] = row_of(m))
    /\ [][\A w \in Workers :
            (pc[w] = "messages_select" /\ Acts(w))
            => /\ resp'[w] = Response(200, "messages", Null, get_recent_messages(50))
               /\ UNCHANGED <<messages, message_history>>]_vars

\* The log holds two different messages, a request has been answered with
\* both, and recent(1) is the one with the larger id.
C25_Witness ==
    /\ Cardinality(messages) = 2
    /\ \E w \in Workers :
        /\ resp[w].body = "messages"
        /\ Len(resp[w].data) = 2
        /\ resp[w].data[1] # resp[w].data[2]
        /\ get_recent_messages(1) = <<resp[w].data[2]>>

\* The file messages of the log that name the stored attachment k.
FileMessagesOf(k) == {m \in messages : m.message_type = "file" /\ m.file_name = k}

\* C26: whenever no upload is being handled, every file in uploads/ is named
\* by one file message of the log, and every file message names a file in
\* uploads/.
C26_NoOrphanAttachments ==
    (\A w \in Workers : req[w].kind # "multipart")
    => /\ \A k \in DOMAIN uploads : Cardinality(FileMessagesOf(k)) = 1
       /\ \A m \in messages :
             m.message_type = "file" => m.file_name \in DOMAIN uploads

IsFailure(response) == \E error \in {"Invalid data", "Invalid message"} : response = Failure(error)

\* C28: a registration with an empty username or password adds no account,
\* a login with an empty username or password adds no session, and a post
\* of an empty text by a logged-in user adds nothing to the log or to the
\* mirror and never reaches add_message; each is answered with a failure.
C28_EmptyFieldsChangeNothing ==
    [][\A w \in Workers :
        /\ (/\ pc[w] = "handle_register" /\ Acts(w)
            /\ (req[w].username = "" \/ req[w].password = ""))
           => /\ users' = users
              /\ resp'[w] = Failure("Invalid data")
        /\ (/\ pc[w] = "handle_login" /\ Acts(w)
            /\ (req[w].username = "" \/ req[w].password = ""))
           => /\ session_tokens' = session_tokens
              /\ resp'[w] = Failure("Invalid data")
        /\ (/\ req[w].kind = "message" /\ Acts(w)
            /\ req[w].message = ""
            /\ verify_session(req[w].cookie))
           => /\ messages' = messages
              /\ message_history' = message_history
              /\ pc'[w] # "add_message_insert"
              /\ Ends(w) => (resp'[w] = Failure("Invalid message") /\ IsFailure(resp'[w]))]_vars

\* A form with an empty field was answered 'Invalid data' and the empty
\* post of the logged-in user 'Invalid message'; the log is empty.
C28_Witness ==
    /\ DOMAIN users = {"a"}
    /\ session_tokens # << >>
    /\ messages = {}
    /\ message_history = << >>
    /\ \E w, v \in Workers :
        /\ resp[w] = Failure("Invalid data")
        /\ resp[v] = Failure("Invalid message")

====
